---- MODULE Spec2Model ----
(***************************************************************************)
(* A model of the blobimport pipeline (cmds/blobimport/changeset.rs), of   *)
(* the changegroup changeset decoder (bundle2-resolver/changegroup), of    *)
(* the bundle part encoders (mercurial-bundles/parts) and of the manifest  *)
(* envelope (mercurial-types/envelope).                                    *)
(*                                                                         *)
(* Revisions of the legacy log are numbered 1..NumRevs in log order; the   *)
(* number of a revision also stands for its node hash, and 0 stands for    *)
(* NULL_HASH.  Futures are modelled by their state (pending, resolved,     *)
(* failed); every step of a future that the executor may interleave with   *)
(* others is one action.                                                   *)
(***************************************************************************)
EXTENDS Integers, Sequences, FiniteSets, TLC

\* ---------------------------------------------------------------- bounds
\* Number of revisions of the legacy log.
NumRevs == 3
\* Size of the extraction window: buffered(100) in the source, scaled down.
BufferSize == 2
\* Largest node hash of a delta chunk.
MaxHash == 1
\* Largest byte, and largest length of a byte string.
MaxByte == 1
MaxLen == 2
\* Largest number of chunks of one changegroup.
MaxChunks == 3
\* Largest number of entries given to changegroup_part.
MaxPairs == 2
\* Largest number of uploads requested for one revision.
MaxUploads == 2
\* Largest number of entries given to treepack_part, and the size of its
\* buffer: buffer_size = 10000 in the source, scaled down.
MaxInputs == 3
TreepackBufferSize == 2
\* Width in bits of the integers that stand for i64.
IntBits == 5
\* Length in bytes of a node hash: 20 in the source, scaled down.
HashLen == 2

\* ------------------------------------------------------------- constants
NULL_HASH == 0

Log == 1..NumRevs

\* Option<T>: None is the empty sequence, Some(x) the sequence of x alone.
None == <<>>

Some(x) == <<x>>

Option(S) == {None} \cup {Some(x) : x \in S}

VARIABLES
    \* ---- upload_changesets
    matches,                   \* the command line, when the import is followed
                               \*   from its arguments on (SpecSelect)
    changesets,                \* the selected source stream, what is left of it
    is_import_from_beggining,  \* changeset.rs:237
    window,                    \* the queue of buffered(): revisions in extraction
    ext,                       \* per revision: state of its extraction future
    cs_parents,                \* per revision: cs.parents() once the record is read
    rootmf,                    \* per revision: state of the root tree upload
    entries,                   \* per revision: state of the entry uploads, "pending"
                               \*   while one of them is not uploaded
    parent_changeset_handles,  \* the session's map: the set of its keys
    phandles,                  \* per revision: the parent handles given to create
    cshandle,                  \* per revision: state of its ChangesetHandle
    emitted,                   \* the elements the output stream has yielded
    panicked,                  \* an expect() failed: the import is dead
    \* ---- convert_to_revlog_changesets
    chunk,                     \* the delta chunk given to the decoder, if any
    decoded,                   \* what the decoder made of it, if anything
    \* ---- convert_to_revlog_changesets(deltaed).collect()
    polled,                    \* the element the stream deltaed yielded last
    yielded,                   \* what the decoder's stream has yielded, in order
    items,                     \* the vector collect() gathers
    result,                    \* what collect() resolved to, once it has
    \* ---- changegroup_part
    changelogentries,          \* the (node, blobnode) pairs read from the input
    cgdata,                    \* the parts given to the packer, in order
    chained,                   \* once the input has ended: the parts still to chain
    \* ---- parse_changeset
    shared_revlogcs,           \* the shared future of the revision record
    shared_rootmf,             \* the shared future of the root manifest
    parents_mf,                \* the future of the root manifests of the parents
    parsed,                    \* ParseChangeset: state of its three futures
    \* ---- the uploads of one revision (upload_entry, the closure on rootmf)
    uploads,                   \* what each call gave: an upload request or an error
    \* ---- treepack_part
    tp_entries,                \* the entry futures pulled from the input, in
                               \*   order: the input of each and its state
    tp_yielded,                \* how many of them buffered() has yielded
    tp_stream,                 \* "open", "ended" (the input), "done" (End was
                               \*   given) or "failed"
    wirepack_parts,            \* the parts given to the packer, in order
    \* ---- functions called on their own
    call,                      \* the last call: the function and its arguments
    ret                        \* what the call returned

importVars == <<matches, changesets, is_import_from_beggining, window, ext, cs_parents, rootmf,
                entries, parent_changeset_handles, phandles, cshandle, emitted,
                panicked>>

decodeVars == <<chunk, decoded>>

streamVars == <<polled, yielded, items, result>>

encodeVars == <<changelogentries, cgdata, chained>>

callVars == <<call, ret>>

parseVars == <<shared_revlogcs, shared_rootmf, parents_mf, parsed>>

uploadVars == <<uploads>>

treepackVars == <<tp_entries, tp_yielded, tp_stream, wirepack_parts>>

\* What upload_changesets does not touch.
otherVars ==
    <<decodeVars, streamVars, encodeVars, callVars, parseVars, uploadVars, treepackVars>>

vars ==
    <<importVars, decodeVars, streamVars, encodeVars, callVars, parseVars, uploadVars,
      treepackVars>>

\* ------------------------------------------------------------ selection
\* The command line: the options changeset, skip and commits-limit.
Matches ==
    [changeset : Option(Log), skip : Option(0..NumRevs), limit : Option(0..NumRevs)]

Skip(s, n) == IF n >= Len(s) THEN <<>> ELSE SubSeq(s, n + 1, Len(s))

Take(s, n) == IF n >= Len(s) THEN s ELSE SubSeq(s, 1, n)

\* Mutant: commits-limit is applied before skip.
SelectChangesetsLimitFirst(m) ==
    LET all == IF m.changeset # None THEN <<m.changeset[1]>> ELSE [i \in Log |-> i]
        taken == IF m.limit = None THEN all ELSE Take(all, m.limit[1])
    IN  IF m.skip = None THEN taken ELSE Skip(taken, m.skip[1])

\* changeset.rs:215-235
SelectChangesets(m) ==
    LET all == IF m.changeset # None THEN <<m.changeset[1]>> ELSE [i \in Log |-> i]
        skipped == IF m.skip = None THEN all ELSE Skip(all, m.skip[1])
    IN  IF m.limit = None THEN skipped ELSE Take(skipped, m.limit[1])

\* changeset.rs:237
IsImportFromBeginning(m) == m.changeset = None /\ m.skip = None

\* -------------------------------------------------------------- helpers
\* The parents a revision of the log can have: earlier revisions, p2 only
\* with p1, and the two different.  Of the two orders of the parents of a
\* merge one is enumerated, the later revision first.
ParentChoices(r) ==
    {pp \in (0..(r - 1)) \X (0..(r - 1)) :
        /\ (pp[1] = NULL_HASH => pp[2] = NULL_HASH)
        /\ (pp[1] # NULL_HASH => pp[2] < pp[1])}

\* cs.parents().into_iter(): the non-null parents, first parent first.
ParentsIter(pp) == SelectSeq(pp, LAMBDA p : p # NULL_HASH)

\* The state of a handle given to a child: a clone of the handle of the map
\* is the same shared future, resolved when and as the handle is.
HandleState(h) == IF h.from = "map" THEN cshandle[h.rev] ELSE h.st

\* changeset.rs:300-312, one parent p of the revision being consumed.
ParentMissing(p) == p \notin parent_changeset_handles

\* Mutant: the session's map is not consulted, every parent is looked up
\* in the store.
ParentHandleFromStore(p) == [from |-> "store", rev |-> p, st |-> "pending"]

\* Mutant: the handle of the map is used only once it has resolved, a parent
\* still in flight is looked up in the store.
ParentHandleResolvedOnly(p) ==
    IF p \in parent_changeset_handles /\ cshandle[p] # "pending"
    THEN [from |-> "map", rev |-> p, st |-> "shared"]
    ELSE [from |-> "store", rev |-> p, st |-> "pending"]

\* The handle of the map when it has one for p, resolved or not, and else a
\* lookup in the store (changeset.rs:301-310).
ParentHandle(p) ==
    IF p \in parent_changeset_handles
    THEN [from |-> "map", rev |-> p, st |-> "shared"]
    ELSE [from |-> "store", rev |-> p, st |-> "pending"]

\* Nothing is in the pipeline yet.
PipelineInit ==
    /\ window = <<>>
    /\ ext = [r \in Log |-> "src"]
    /\ cs_parents = [r \in Log |-> <<>>]
    /\ rootmf = [r \in Log |-> "none"]
    /\ entries = [r \in Log |-> "none"]
    /\ parent_changeset_handles = {}
    /\ phandles = [r \in Log |-> <<>>]
    /\ cshandle = [r \in Log |-> "none"]
    /\ emitted = <<>>
    /\ panicked = FALSE

ImportInit ==
    /\ matches = None
    /\ \E m \in Matches :
          /\ changesets = SelectChangesets(m)
          /\ is_import_from_beggining = IsImportFromBeginning(m)
    /\ PipelineInit

\* The same, the command line kept.
SelectInit ==
    /\ \E m \in Matches :
          /\ matches = Some(m)
          /\ changesets = SelectChangesets(m)
          /\ is_import_from_beggining = IsImportFromBeginning(m)
    /\ PipelineInit

\* ------------------------------------------------------------ extraction
\* Mutant: the window admits one future more than its size.
WindowHasRoomOffByOne == Len(window) <= BufferSize

\* buffered(100) holds at most its argument of unfinished or unconsumed futures.
WindowHasRoom == Len(window) < BufferSize

\* buffered(100) pulls the next revision while the window has room; the map
\* stages before it build the extraction future and spawn it on the pool.
Pull ==
    /\ ~panicked
    /\ changesets # <<>>
    /\ WindowHasRoom
    /\ LET csid == Head(changesets) IN
          /\ window' = Append(window, csid)
          /\ ext' = [ext EXCEPT ![csid] = "running"]
    /\ changesets' = Tail(changesets)
    /\ UNCHANGED <<otherVars, matches, is_import_from_beggining, cs_parents, rootmf,
                   entries, parent_changeset_handles, phandles, cshandle, emitted,
                   panicked>>

\* The extraction future of r resolves (changeset.rs:245-288): parse_changeset
\* has read the revision record, the root manifest and the changed entries,
\* the closure at 251-279 has prepared the upload of the root tree (none when
\* the manifest id is null), and the entry uploads are built, not yet polled.
Extract(r) ==
    /\ ~panicked
    /\ ext[r] = "running"
    /\ \E pp \in ParentChoices(r), mf \in {"absent", "prepared"},
          en \in {"empty", "pending"} :
          /\ (mf = "absent" => en = "empty")
          /\ cs_parents' = [cs_parents EXCEPT ![r] = ParentsIter(pp)]
          /\ rootmf' = [rootmf EXCEPT ![r] = mf]
          /\ entries' = [entries EXCEPT ![r] = en]
    /\ ext' = [ext EXCEPT ![r] = "ok"]
    /\ UNCHANGED <<otherVars, matches, changesets, is_import_from_beggining, window,
                   parent_changeset_handles, phandles, cshandle, emitted, panicked>>

\* A read of the legacy log fails: join3 fails with it.
ExtractFail(r) ==
    /\ ~panicked
    /\ ext[r] = "running"
    /\ ext' = [ext EXCEPT ![r] = "err"]
    /\ UNCHANGED <<otherVars, matches, changesets, is_import_from_beggining, window,
                   cs_parents, rootmf, entries, parent_changeset_handles, phandles,
                   cshandle, emitted, panicked>>

\* ----------------------------------------------------- changeset creation
\* Mutant: buffer_unordered, the newest resolved extraction is yielded first.
NextBufferedUnordered ==
    LET resolved == {i \in 1..Len(window) : ext[window[i]] \in {"ok", "err"}}
    IN  IF resolved = {} THEN Head(window)
        ELSE window[CHOOSE i \in resolved : \A j \in resolved : j <= i]

\* buffered(100) yields the results of the extractions in the order they were
\* pulled: the next one is the oldest of the window, once it has resolved.
NextBuffered == Head(window)

\* Mutant: only the first parent is given to create.
ParentHandlesFirstOnly(r) ==
    [i \in 1..(IF cs_parents[r] = <<>> THEN 0 ELSE 1) |-> ParentHandle(cs_parents[r][i])]

\* p1: p1handle, p2: p2handle (changeset.rs:299-321)
ParentHandles(r) == [i \in 1..Len(cs_parents[r]) |-> ParentHandle(cs_parents[r][i])]

\* Mutant: expect() is left out, a missing handle is looked up in the store.
ExpectPanicsNever(r) == FALSE

\* Mutant: expect() in every mode.
ExpectPanicsAnyMode(r) ==
    \E i \in 1..Len(cs_parents[r]) : ParentMissing(cs_parents[r][i])

\* maybe_handle.expect(..) at changeset.rs:303-304 panics
ExpectPanics(r) ==
    /\ is_import_from_beggining
    /\ \E i \in 1..Len(cs_parents[r]) : ParentMissing(cs_parents[r][i])

\* Mutant: the map keeps the newest handle only.
InsertHandleEvicting(r) == {r}

\* parent_changeset_handles.insert(csid, cshandle.clone()) (changeset.rs:332)
InsertHandle(r) == parent_changeset_handles \cup {r}

\* Mutant: an extraction error is yielded as a completion future.
StreamItemAlwaysFuture(r) == [rev |-> r, item |-> "future"]

\* What the stream yields for r: map (changeset.rs:296) runs its closure on the
\* results of the extractions only, an error passes through as an error.
StreamItem(r) ==
    IF ext[r] = "err" THEN [rev |-> r, item |-> "error"]
                      ELSE [rev |-> r, item |-> "future"]

\* Mutant: the slot of a consumed revision is not given back.
LeaveNever(r) == window

\* buffered() takes the result it yields out of its queue.
Leave(r) == SelectSeq(window, LAMBDA x : x # r)

\* The extraction of the oldest revision of the window failed: buffered()
\* yields the error as an element of the stream, the closure at
\* changeset.rs:296 is not run, no handle is made.
EmitError ==
    /\ ~panicked
    /\ window # <<>>
    /\ ext[NextBuffered] = "err"
    /\ LET r == NextBuffered IN
          /\ ext' = [ext EXCEPT ![r] = "errored"]
          /\ emitted' = Append(emitted, StreamItem(r))
          /\ window' = Leave(r)
    /\ UNCHANGED <<otherVars, matches, changesets, is_import_from_beggining, cs_parents,
                   rootmf, entries, parent_changeset_handles, phandles, cshandle,
                   panicked>>

\* The closure at changeset.rs:296-338 on the oldest revision of the window.
CreateChangeset ==
    /\ ~panicked
    /\ window # <<>>
    /\ ext[NextBuffered] = "ok"
    /\ LET r == NextBuffered IN
          /\ ext' = [ext EXCEPT ![r] = "consumed"]
          /\ IF ExpectPanics(r)
             THEN /\ panicked' = TRUE
                  /\ UNCHANGED <<phandles, cshandle, parent_changeset_handles, emitted>>
             ELSE /\ phandles' = [phandles EXCEPT ![r] = ParentHandles(r)]
                  /\ cshandle' = [cshandle EXCEPT ![r] = "pending"]
                  /\ parent_changeset_handles' = InsertHandle(r)
                  /\ emitted' = Append(emitted, StreamItem(r))
                  /\ UNCHANGED panicked
          /\ window' = Leave(r)
    /\ UNCHANGED <<otherVars, matches, changesets, is_import_from_beggining, cs_parents,
                   rootmf, entries>>

\* ---------------------------------------------------------------- uploads
\* Mutant: create is given no root tree.
RootManifestArgNone(r) == "absent"

\* root_manifest: rootmf (changeset.rs:322)
RootManifestArg(r) == rootmf[r]

\* Mutant: create is given an empty stream of entries.
SubEntriesArgEmpty(r) == "empty"

\* sub_entries: entries (changeset.rs:297, 323)
SubEntriesArg(r) == entries[r]

\* CreateChangeset::create resolves the handle once the root tree, the
\* entries and the parent handles it was given have all resolved.
CreateReady(r) ==
    /\ RootManifestArg(r) \in {"absent", "ok"}
    /\ SubEntriesArg(r) \in {"empty", "uploaded"}
    /\ \A i \in 1..Len(phandles[r]) : HandleState(phandles[r][i]) = "ok"

\* The upload of the root tree completes.
RootUpload(r) ==
    /\ ~panicked
    /\ cshandle[r] = "pending"
    /\ rootmf[r] = "prepared"
    /\ rootmf' = [rootmf EXCEPT ![r] = "ok"]
    /\ UNCHANGED <<otherVars, matches, changesets, is_import_from_beggining, window,
                   ext, cs_parents, entries, parent_changeset_handles, phandles,
                   cshandle, emitted, panicked>>

\* The handle of r resolves to a failure: the future that create made is
\* finished, and the futures it owned (root tree, entries, parents) are dropped.
FailChangeset(r) ==
    /\ cshandle' = [cshandle EXCEPT ![r] = "failed"]
    /\ rootmf' = [rootmf EXCEPT ![r] = "dropped"]
    /\ entries' = [entries EXCEPT ![r] = "dropped"]
    /\ phandles' = [phandles EXCEPT ![r] = <<>>]
    /\ UNCHANGED <<otherVars, matches, changesets, is_import_from_beggining, window,
                   ext, cs_parents, parent_changeset_handles, emitted, panicked>>

\* The upload of the root tree fails, and the changeset with it.
RootUploadFail(r) ==
    /\ ~panicked
    /\ cshandle[r] = "pending"
    /\ rootmf[r] = "prepared"
    /\ FailChangeset(r)

\* upload_entry: one of the entries is uploaded (futures_unordered: any one),
\* the last of them or not.
EntryUpload(r) ==
    /\ ~panicked
    /\ cshandle[r] = "pending"
    /\ entries[r] = "pending"
    /\ \E en \in {"pending", "uploaded"} : entries' = [entries EXCEPT ![r] = en]
    /\ UNCHANGED <<otherVars, matches, changesets, is_import_from_beggining, window,
                   ext, cs_parents, rootmf, parent_changeset_handles, phandles,
                   cshandle, emitted, panicked>>

\* upload_entry fails for one of the entries, and the changeset with it.
EntryUploadFail(r) ==
    /\ ~panicked
    /\ cshandle[r] = "pending"
    /\ entries[r] = "pending"
    /\ FailChangeset(r)

\* get_changeset_by_changesetid(p) for the i-th parent of r answers.
StoreLookup(r, i) ==
    /\ ~panicked
    /\ cshandle[r] = "pending"
    /\ i \in 1..Len(phandles[r])
    /\ phandles[r][i].from = "store"
    /\ phandles[r][i].st = "pending"
    /\ \E st \in {"ok", "failed"} : phandles' = [phandles EXCEPT ![r][i].st = st]
    /\ UNCHANGED <<otherVars, matches, changesets, is_import_from_beggining, window,
                   ext, cs_parents, rootmf, entries, parent_changeset_handles, cshandle,
                   emitted, panicked>>

\* The changeset is stored: its handle resolves.
ChangesetComplete(r) ==
    /\ ~panicked
    /\ cshandle[r] = "pending"
    /\ CreateReady(r)
    /\ cshandle' = [cshandle EXCEPT ![r] = "ok"]
    /\ UNCHANGED <<otherVars, matches, changesets, is_import_from_beggining, window,
                   ext, cs_parents, rootmf, entries, parent_changeset_handles, phandles,
                   emitted, panicked>>

\* Storing the changeset itself fails (hash mismatch, store error).
ChangesetFail(r) ==
    /\ ~panicked
    /\ cshandle[r] = "pending"
    /\ CreateReady(r)
    /\ FailChangeset(r)

\* A parent handle has failed: the changeset that waits for it fails.
ParentFail(r) ==
    /\ ~panicked
    /\ cshandle[r] = "pending"
    /\ \E i \in 1..Len(phandles[r]) : HandleState(phandles[r][i]) = "failed"
    /\ FailChangeset(r)

\* The import pipeline: the steps the executor may take.
Next ==
    \/ Pull
    \/ \E r \in Log : Extract(r)
    \/ \E r \in Log : ExtractFail(r)
    \/ EmitError
    \/ CreateChangeset
    \/ \E r \in Log : RootUpload(r)
    \/ \E r \in Log : RootUploadFail(r)
    \/ \E r \in Log : EntryUpload(r)
    \/ \E r \in Log : EntryUploadFail(r)
    \/ \E r \in Log, i \in 1..2 : StoreLookup(r, i)
    \/ \E r \in Log : ChangesetComplete(r)
    \/ \E r \in Log : ChangesetFail(r)
    \/ \E r \in Log : ParentFail(r)

\* ------------------------------------------------------------- decoder
\* Node hashes 0..MaxHash, 0 the null hash; bytes 0..MaxByte; byte strings of
\* at most MaxLen bytes.
Hashes == 0..MaxHash

ByteStrings == UNION {[1..n -> 0..MaxByte] : n \in 0..MaxLen}

\* A delta is a sequence of operations: an insertion gives its content, a copy
\* the bytes start..end of the base.  Against the empty base only insertions
\* and the empty copy are in range.
Insertion(x) == [op |-> "insert", start |-> 0, end |-> 0, content |-> x]

Copy(a, b) == [op |-> "copy", start |-> a, end |-> b, content |-> <<>>]

\* Delta::new_fulltext(text): the delta that gives text whatever the base.
NewFulltext(text) == <<Insertion(text)>>

Deltas ==
    {<<Insertion(x)>> : x \in ByteStrings}
    \cup {<<Insertion(x), Insertion(y)>> :
              x \in {b \in ByteStrings : Len(b) = 1}, y \in {b \in ByteStrings : Len(b) <= 1}}
    \cup {<<Copy(0, 0), Insertion(<<0>>)>>}

CgDeltaChunk ==
    [node : Hashes, p1 : Hashes, p2 : Hashes, base : Hashes, linknode : Hashes,
     delta : Deltas]

ApplyOp(text, o) ==
    IF o.op = "insert" THEN o.content ELSE SubSeq(text, o.start + 1, o.end)

RECURSIVE ApplyOps(_, _)
ApplyOps(text, ops) ==
    IF ops = <<>> THEN <<>>
    ELSE ApplyOp(text, Head(ops)) \o ApplyOps(text, Tail(ops))

\* Mutant: the delta is a patch of the base, what it does not replace is kept.
ApplyKeepsBase(text, delta) == ApplyOps(text, delta) \o text

\* delta::apply(text, delta)
Apply(text, delta) == ApplyOps(text, delta)

\* BlobNode::new(Blob::from(content), p1, p2)
BlobNode(content, p1, p2) == [content |-> content, p1 |-> p1, p2 |-> p2]

\* RevlogChangeset::new(blobnode) parses the content: a changeset text holds
\* at least the reference of its root manifest, the empty text is none.
ChangesetParses(content) == content # <<>>

RevlogChangesetNew(node, blobnode) ==
    IF ChangesetParses(blobnode.content)
    THEN [ok |-> TRUE, node |-> node, cs |-> blobnode]
    ELSE [ok |-> FALSE, err |-> "changeset"]

\* Mutant: node is not compared with linknode.
ConvertChunkNoLinknode(c) ==
    IF c.base # NULL_HASH THEN [ok |-> FALSE, err |-> "base"]
    ELSE RevlogChangesetNew(c.node,
            BlobNode(Apply(<<>>, c.delta),
                     IF c.p1 = NULL_HASH THEN None ELSE Some(c.p1),
                     IF c.p2 = NULL_HASH THEN None ELSE Some(c.p2)))

\* Mutant: the delta is taken for a fulltext, its first fragment is the content.
ConvertChunkFirstFragment(c) ==
    IF c.base # NULL_HASH THEN [ok |-> FALSE, err |-> "base"]
    ELSE IF c.node # c.linknode THEN [ok |-> FALSE, err |-> "linknode"]
    ELSE RevlogChangesetNew(c.node,
            BlobNode(Head(c.delta).content,
                     IF c.p1 = NULL_HASH THEN None ELSE Some(c.p1),
                     IF c.p2 = NULL_HASH THEN None ELSE Some(c.p2)))

\* Mutant: a null parent is passed on as a parent.
ConvertChunkNullParent(c) ==
    IF c.base # NULL_HASH THEN [ok |-> FALSE, err |-> "base"]
    ELSE IF c.node # c.linknode THEN [ok |-> FALSE, err |-> "linknode"]
    ELSE RevlogChangesetNew(c.node,
            BlobNode(Apply(<<>>, c.delta), Some(c.p1),
                     IF c.p2 = NULL_HASH THEN None ELSE Some(c.p2)))

\* The closure of convert_to_revlog_changesets (changeset.rs:28-61).
ConvertChunk(c) ==
    IF c.base # NULL_HASH THEN [ok |-> FALSE, err |-> "base"]
    ELSE IF c.node # c.linknode THEN [ok |-> FALSE, err |-> "linknode"]
    ELSE LET p1 == IF c.p1 = NULL_HASH THEN None ELSE Some(c.p1)
             p2 == IF c.p2 = NULL_HASH THEN None ELSE Some(c.p2)
             content == Apply(<<>>, c.delta)
         IN  RevlogChangesetNew(c.node, BlobNode(content, p1, p2))

DecodeInit ==
    /\ chunk = None
    /\ decoded = None

\* One chunk goes through convert_to_revlog_changesets.
Decode ==
    /\ chunk = None
    /\ \E c \in CgDeltaChunk :
          /\ chunk' = Some(c)
          /\ decoded' = Some(ConvertChunk(c))
    /\ UNCHANGED <<importVars, treepackVars, uploadVars, parseVars, streamVars,
                   encodeVars, callVars>>

\* ------------------------------------------------------ decoder stream
\* The chunks of a changegroup under check: every node, base and linknode,
\* no parents, and a delta whose content parses or one whose content does not.
StreamChunks ==
    {c \in CgDeltaChunk :
        /\ c.p1 = NULL_HASH /\ c.p2 = NULL_HASH
        /\ c.delta \in {<<Insertion(<<>>)>>, <<Insertion(<<0>>)>>}}

StreamInit ==
    /\ polled = None
    /\ yielded = <<>>
    /\ items = <<>>
    /\ result = None

\* Mutant: a chunk that fails is skipped, the stream goes on with the next.
AndThenSkipsErrors(c) ==
    IF ConvertChunk(c).ok THEN <<ConvertChunk(c)>> ELSE <<>>

\* deltaed.and_then(closure): the closure runs on each chunk, and what it
\* returns, object or error, is the element the stream yields for the chunk.
AndThen(c) == <<ConvertChunk(c)>>

\* Mutant: on an error collect() resolves to what it has gathered so far.
CollectKeepsItems(its, e) ==
    IF e.ok THEN [items |-> Append(its, e), result |-> None]
            ELSE [items |-> its, result |-> Some([ok |-> TRUE, items |-> its])]

\* collect() on one element of the stream: an object is pushed, an error
\* drops what was gathered and is the result.
Collect(its, e) ==
    IF e.ok THEN [items |-> Append(its, e), result |-> None]
            ELSE [items |-> <<>>, result |-> Some([ok |-> FALSE, err |-> e.err])]

RECURSIVE CollectAll(_, _)
CollectAll(its, es) ==
    IF es = <<>> THEN [items |-> its, result |-> None]
    ELSE LET one == Collect(its, Head(es)) IN
             IF one.result # None THEN one ELSE CollectAll(one.items, Tail(es))

\* collect() polls the decoder, which polls deltaed and gets a chunk.
PollChunk ==
    /\ result = None
    /\ Len(yielded) < MaxChunks
    /\ \E c \in StreamChunks :
          /\ polled' = Some(c)
          /\ yielded' = yielded \o AndThen(c)
          /\ LET got == CollectAll(items, AndThen(c)) IN
                /\ items' = got.items
                /\ result' = got.result
    /\ UNCHANGED <<importVars, treepackVars, uploadVars, parseVars, decodeVars,
                   encodeVars, callVars>>

\* deltaed itself yields an error: and_then passes it on.
PollInputError ==
    /\ result = None
    /\ Len(yielded) < MaxChunks
    /\ polled' = None
    /\ LET e == [ok |-> FALSE, err |-> "input"] IN
          /\ yielded' = Append(yielded, e)
          /\ items' = Collect(items, e).items
          /\ result' = Collect(items, e).result
    /\ UNCHANGED <<importVars, treepackVars, uploadVars, parseVars, decodeVars,
                   encodeVars, callVars>>

\* deltaed has ended: collect() resolves to the vector.
PollEnd ==
    /\ result = None
    /\ result' = Some([ok |-> TRUE, items |-> items])
    /\ polled' = None
    /\ UNCHANGED <<yielded, items, importVars, treepackVars, uploadVars, parseVars,
                   decodeVars, encodeVars, callVars>>

\* What is handed on for application: the vector collect() resolved to, and
\* nothing when it resolved to an error.
HandedOn == IF result # None /\ result[1].ok THEN result[1].items ELSE <<>>

\* ------------------------------------------------------ changegroup_part
\* The blobnodes under check: a blob that holds its bytes or holds none
\* (as_inner() is None), and each parent absent or the hash MaxHash.
HgBlobNode == [blob : {None, Some(<<0>>)}, p1 : Option({MaxHash}), p2 : Option({MaxHash})]

ChangelogEntry == [node : Hashes, blobnode : HgBlobNode]

\* The closure at parts/mod.rs:57-80.
CgChunk(node, blobnode) ==
    LET p1 == IF blobnode.p1 = None THEN NULL_HASH ELSE blobnode.p1[1]
        p2 == IF blobnode.p2 = None THEN NULL_HASH ELSE blobnode.p2[1]
        base == NULL_HASH
        linknode == node
        text == IF blobnode.blob = None THEN <<>> ELSE blobnode.blob[1]
        delta == NewFulltext(text)
        deltachunk == [node |-> node, p1 |-> p1, p2 |-> p2, base |-> base,
                       linknode |-> linknode, delta |-> delta]
    IN  [part |-> "CgChunk", section |-> "Changeset", chunk |-> Some(deltachunk)]

SectionEnd(section) == [part |-> "SectionEnd", section |-> section, chunk |-> None]

End == [part |-> "End", section |-> "", chunk |-> None]

\* Mutant: the section end of the manifests is left out.
ChainedWithoutManifest == <<SectionEnd("Changeset"), End>>

\* The three parts chained after the entries (parts/mod.rs:82-88).
Chained == <<SectionEnd("Changeset"), SectionEnd("Manifest"), End>>

EncodeInit ==
    /\ changelogentries = <<>>
    /\ cgdata = <<>>
    /\ chained = None

\* The packer polls the parts: the input has an entry, map makes its chunk.
PartCgChunk ==
    /\ chained = None
    /\ Len(changelogentries) < MaxPairs
    /\ \E e \in ChangelogEntry :
          /\ changelogentries' = Append(changelogentries, e)
          /\ cgdata' = Append(cgdata, CgChunk(e.node, e.blobnode))
    /\ UNCHANGED <<chained, importVars, treepackVars, uploadVars, parseVars, decodeVars,
                   streamVars, callVars>>

\* The packer polls the parts: the input has ended, or ended before; chain
\* gives the next of the parts chained after it.
PartChained ==
    /\ LET rest == IF chained = None THEN Chained ELSE chained[1] IN
          /\ rest # <<>>
          /\ cgdata' = Append(cgdata, Head(rest))
          /\ chained' = Some(Tail(rest))
    /\ UNCHANGED <<changelogentries, importVars, treepackVars, uploadVars, parseVars,
                   decodeVars, streamVars, callVars>>

\* --------------------------------------------------------- treepack_part
\* TreepackPartInput (parts/mod.rs:96-104).  The entries under check: the
\* root tree with no content, and a tree with content, named, under the root
\* or under a directory; each with the null node or another, and a parent.
TreepackPartInput ==
    {[node |-> n, p1 |-> Some(MaxHash), p2 |-> None, content |-> sh[1],
      name |-> sh[2], linknode |-> MaxHash, basepath |-> sh[3]] :
        n \in {NULL_HASH, MaxHash},
        sh \in {<<(<<>>), None, None>>,
                <<(<<MaxByte>>), Some(<<"a">>), None>>,
                <<(<<MaxByte>>), Some(<<"a">>), Some(<<"d">>)>>}}

\* input.p1.into(): the hash of an absent parent is the null hash.
IntoNodeHash(opt) == IF opt = None THEN NULL_HASH ELSE opt[1]

\* The closure at parts/mod.rs:118-150: the four parts of one entry.
WirepackParts(input) ==
    LET joined == IF input.name = None THEN input.basepath
                  ELSE Some((IF input.basepath = None THEN <<>> ELSE input.basepath[1])
                                \o input.name[1])
        path == IF joined = None THEN [repo_path |-> "RootPath", path |-> <<>>]
                ELSE [repo_path |-> "DirectoryPath", path |-> joined[1]]
        history_meta == [part |-> "HistoryMeta", path |-> path, entry_count |-> 1]
        history == [part |-> "History", node |-> input.node,
                    p1 |-> IntoNodeHash(input.p1), p2 |-> IntoNodeHash(input.p2),
                    linknode |-> input.linknode, copy_from |-> None]
        data_meta == [part |-> "DataMeta", path |-> path, entry_count |-> 1]
        data == [part |-> "Data", node |-> input.node, delta_base |-> NULL_HASH,
                 delta |-> NewFulltext(input.content)]
    IN  <<history_meta, history, data_meta, data>>

\* wirepack::Part::End
WirepackEnd == [part |-> "End"]

TreepackInit ==
    /\ tp_entries = <<>>
    /\ tp_yielded = 0
    /\ tp_stream = "open"
    /\ wirepack_parts = <<>>

\* Mutant: buffer_unordered, any future that is done is yielded.
BufferedReadyUnordered ==
    {i \in (tp_yielded + 1)..Len(tp_entries) : tp_entries[i].st # "running"}

\* buffered(buffer_size) yields the results in the order of the input: the
\* oldest future it holds, once that is done.
BufferedReady ==
    {i \in {tp_yielded + 1} : i <= Len(tp_entries) /\ tp_entries[i].st # "running"}

\* Mutant: the buffer takes one future more than its size.
BufferedHasRoomOffByOne == Len(tp_entries) - tp_yielded <= TreepackBufferSize

\* buffered(buffer_size) holds at most buffer_size futures.
BufferedHasRoom == Len(tp_entries) - tp_yielded < TreepackBufferSize

\* buffered() pulls the next future from the input and polls it.
TreepackPull ==
    /\ tp_stream = "open"
    /\ Len(tp_entries) < MaxInputs
    /\ BufferedHasRoom
    /\ \E input \in TreepackPartInput :
          tp_entries' = Append(tp_entries, [input |-> input, st |-> "running"])
    /\ UNCHANGED <<tp_yielded, tp_stream, wirepack_parts>>
    /\ UNCHANGED <<importVars, decodeVars, streamVars, encodeVars, callVars, parseVars,
                   uploadVars>>

\* The input has no more entries.
TreepackInputEnd ==
    /\ tp_stream = "open"
    /\ tp_stream' = "ended"
    /\ UNCHANGED <<tp_entries, tp_yielded, wirepack_parts>>
    /\ UNCHANGED <<importVars, decodeVars, streamVars, encodeVars, callVars, parseVars,
                   uploadVars>>

\* The input itself yields an error: buffered() passes it on at once, and
\* the packer gets the error in the place of a part.
TreepackInputError ==
    /\ tp_stream = "open"
    /\ tp_stream' = "failed"
    /\ UNCHANGED <<tp_entries, tp_yielded, wirepack_parts>>
    /\ UNCHANGED <<importVars, decodeVars, streamVars, encodeVars, callVars, parseVars,
                   uploadVars>>

\* One of the futures in the buffer resolves, whichever: to its entry or to
\* an error.
TreepackResolve(i) ==
    /\ tp_stream \in {"open", "ended"}
    /\ i \in (tp_yielded + 1)..Len(tp_entries)
    /\ tp_entries[i].st = "running"
    /\ \E st \in {"ok", "err"} : tp_entries' = [tp_entries EXCEPT ![i].st = st]
    /\ UNCHANGED <<tp_yielded, tp_stream, wirepack_parts>>
    /\ UNCHANGED <<importVars, decodeVars, streamVars, encodeVars, callVars, parseVars,
                   uploadVars>>

\* buffered() yields the next result; map and flatten make its four parts
\* (parts/mod.rs:118-151).  An error is yielded as the error of the stream.
TreepackYield ==
    /\ tp_stream \in {"open", "ended"}
    /\ \E i \in BufferedReady :
          IF tp_entries[i].st = "ok"
          THEN /\ wirepack_parts' = wirepack_parts \o WirepackParts(tp_entries[i].input)
               /\ UNCHANGED tp_stream
          ELSE /\ tp_stream' = "failed"
               /\ UNCHANGED wirepack_parts
    /\ tp_yielded' = tp_yielded + 1
    /\ UNCHANGED tp_entries
    /\ UNCHANGED <<importVars, decodeVars, streamVars, encodeVars, callVars, parseVars,
                   uploadVars>>

\* The input has ended and the buffer is empty: chain gives End
\* (parts/mod.rs:152), and the stream of the parts ends.
TreepackEnd ==
    /\ tp_stream = "ended"
    /\ tp_yielded = Len(tp_entries)
    /\ wirepack_parts' = Append(wirepack_parts, WirepackEnd)
    /\ tp_stream' = "done"
    /\ UNCHANGED <<tp_entries, tp_yielded>>
    /\ UNCHANGED <<importVars, decodeVars, streamVars, encodeVars, callVars, parseVars,
                   uploadVars>>

\* ------------------------------------------------ ChangegroupApplyResult
CallInit ==
    /\ call = None
    /\ ret = None

\* i64, scaled to IntBits bits.
I64 == (0 - 2 ^ (IntBits - 1))..(2 ^ (IntBits - 1) - 1)

Wrap(n) == ((n + 2 ^ (IntBits - 1)) % (2 ^ IntBits)) - 2 ^ (IntBits - 1)

\* a + b on i64: out of range it panics (a build with overflow checks) or
\* wraps (a build without).
AddI64(a, b) ==
    IF a + b \in I64 THEN {[panic |-> FALSE, value |-> a + b]}
    ELSE {[panic |-> TRUE, value |-> 0], [panic |-> FALSE, value |-> Wrap(a + b)]}

Digit(d) == <<"0", "1", "2", "3", "4", "5", "6", "7", "8", "9">>[d + 1]

RECURSIVE NatToString(_)
NatToString(n) ==
    IF n < 10 THEN <<Digit(n)>> ELSE NatToString(n \div 10) \o <<Digit(n % 10)>>

\* write!(f, "{}", n): the decimal digits of n, after "-" when n is negative.
IntToString(n) == IF n < 0 THEN <<"-">> \o NatToString(0 - n) ELSE NatToString(n)

ChangegroupApplyResult ==
    {[tag |-> "Error", heads_num_diff |-> 0]}
    \cup {[tag |-> "Success", heads_num_diff |-> d] : d \in I64}

\* Mutant: heads_num_diff is written as it is.
FmtNoOffset(res) ==
    IF res.tag = "Success"
    THEN {[panic |-> FALSE, str |-> IntToString(res.heads_num_diff)]}
    ELSE {[panic |-> FALSE, str |-> <<"0">>]}

\* Mutant: fewer heads are encoded as -1 - heads_num_diff.
FmtNegated(res) ==
    IF res.tag = "Success"
    THEN {[panic |-> r.panic, str |-> IF r.panic THEN <<>> ELSE IntToString(r.value)] :
             r \in IF res.heads_num_diff >= 0 THEN AddI64(1, res.heads_num_diff)
                    ELSE AddI64(-1, 0 - res.heads_num_diff)}
    ELSE {[panic |-> FALSE, str |-> <<"0">>]}

\* Display::fmt of ChangegroupApplyResult (parts/mod.rs:185-198): the
\* outcomes it can have, a string written or a panic.
Fmt(res) ==
    IF res.tag = "Success"
    THEN {[panic |-> r.panic, str |-> IF r.panic THEN <<>> ELSE IntToString(r.value)] :
             r \in IF res.heads_num_diff >= 0 THEN AddI64(1, res.heads_num_diff)
                    ELSE AddI64(-1, res.heads_num_diff)}
    ELSE {[panic |-> FALSE, str |-> <<"0">>]}

\* format!("{}", res) in replychangegroup_part.
CallFmt ==
    /\ call = None
    /\ \E res \in ChangegroupApplyResult : \E out \in Fmt(res) :
          /\ call' = Some([fn |-> "fmt", arg |-> res])
          /\ ret' = Some(out)
    /\ UNCHANGED <<importVars, treepackVars, uploadVars, parseVars, decodeVars,
                   streamVars, encodeVars>>

\* ---------------------------------------------------- HgManifestEnvelope
\* The bytes of the node hash h, as vec![h; 20] in the tests.
NodeHashBytes(h) == [i \in 1..HashLen |-> h]

HgNodeHash == {NodeHashBytes(h) : h \in Hashes}

\* HgManifestEnvelopeMut (manifest_envelope.rs:22-28)
HgManifestEnvelope ==
    [node_id : HgNodeHash, p1 : Option(HgNodeHash), p2 : Option(HgNodeHash),
     computed_node_id : HgNodeHash, contents : ByteStrings]

\* thrift::HgNodeHash(thrift::Sha1(bytes)): any bytes, here of the right
\* length or one short (vec![1; 19] in bad_thrift).
ThriftNodeHash == HgNodeHash \cup {[i \in 1..(HashLen - 1) |-> h] : h \in Hashes}

\* thrift::HgManifestEnvelope: contents is an optional field.
ThriftManifestEnvelope ==
    [node_id : ThriftNodeHash, p1 : Option(ThriftNodeHash), p2 : Option(ThriftNodeHash),
     computed_node_id : ThriftNodeHash, contents : Option(ByteStrings)]

\* HgNodeHash::from_thrift: the bytes must have the length of a hash.
NodeHashFromThrift(h) ==
    IF Len(h) = HashLen THEN [ok |-> TRUE, value |-> h] ELSE [ok |-> FALSE, value |-> <<>>]

\* HgNodeHash::from_thrift_opt
NodeHashFromThriftOpt(h) ==
    IF h = None THEN [ok |-> TRUE, value |-> None]
    ELSE [ok |-> NodeHashFromThrift(h[1]).ok, value |-> h]

InvalidThrift == [ok |-> FALSE, err |-> "InvalidThrift"]

\* Mutant: contents that are missing are taken for empty contents.
FromThriftDefaultContents(fe) ==
    IF /\ NodeHashFromThrift(fe.node_id).ok
       /\ NodeHashFromThriftOpt(fe.p1).ok
       /\ NodeHashFromThriftOpt(fe.p2).ok
       /\ NodeHashFromThrift(fe.computed_node_id).ok
    THEN [ok |-> TRUE,
          value |-> [node_id |-> fe.node_id, p1 |-> fe.p1, p2 |-> fe.p2,
                     computed_node_id |-> fe.computed_node_id,
                     contents |-> IF fe.contents = None THEN <<>> ELSE fe.contents[1]]]
    ELSE InvalidThrift

\* HgManifestEnvelope::from_thrift (manifest_envelope.rs:43-63)
FromThrift(fe) ==
    IF /\ NodeHashFromThrift(fe.node_id).ok
       /\ NodeHashFromThriftOpt(fe.p1).ok
       /\ NodeHashFromThriftOpt(fe.p2).ok
       /\ NodeHashFromThrift(fe.computed_node_id).ok
       /\ fe.contents # None
    THEN [ok |-> TRUE,
          value |-> [node_id |-> NodeHashFromThrift(fe.node_id).value,
                     p1 |-> NodeHashFromThriftOpt(fe.p1).value,
                     p2 |-> NodeHashFromThriftOpt(fe.p2).value,
                     computed_node_id |-> NodeHashFromThrift(fe.computed_node_id).value,
                     contents |-> fe.contents[1]]]
    ELSE InvalidThrift

\* Mutant: empty contents are written as a missing field.
IntoThriftEmptyAsNone(me) ==
    [node_id |-> me.node_id, p1 |-> me.p1, p2 |-> me.p2,
     computed_node_id |-> me.computed_node_id,
     contents |-> IF me.contents = <<>> THEN None ELSE Some(me.contents)]

\* HgManifestEnvelope::into_thrift (manifest_envelope.rs:104-113)
IntoThrift(me) ==
    [node_id |-> me.node_id, p1 |-> me.p1, p2 |-> me.p2,
     computed_node_id |-> me.computed_node_id,
     contents |-> Some(me.contents)]

\* compact_protocol::serialize: the fields that are set, each under its id,
\* and the stop field.
Field(id, v) == IF v = None THEN <<>> ELSE <<[id |-> id, value |-> v[1]]>>

Serialize(fe) ==
    Field(1, Some(fe.node_id)) \o Field(2, fe.p1) \o Field(3, fe.p2)
        \o Field(4, Some(fe.computed_node_id)) \o Field(5, fe.contents)
        \o <<[id |-> 0, value |-> <<>>]>>

\* The field id of a serialized struct, when it is there.
ReadField(blob, id) ==
    LET at == {i \in 1..Len(blob) : blob[i].id = id}
    IN  IF at = {} THEN None ELSE Some(blob[CHOOSE i \in at : TRUE].value)

\* compact_protocol::deserialize: fails on a buffer that ends before the stop
\* field; a field that is not optional and is missing gets its default.
Deserialize(blob) ==
    IF blob = <<>> \/ blob[Len(blob)].id # 0 THEN [ok |-> FALSE, value |-> <<>>]
    ELSE [ok |-> TRUE,
          value |-> [node_id |-> IF ReadField(blob, 1) = None THEN <<>>
                                 ELSE ReadField(blob, 1)[1],
                     p1 |-> ReadField(blob, 2),
                     p2 |-> ReadField(blob, 3),
                     computed_node_id |-> IF ReadField(blob, 4) = None THEN <<>>
                                          ELSE ReadField(blob, 4)[1],
                     contents |-> ReadField(blob, 5)]]

\* HgManifestEnvelope::from_blob (manifest_envelope.rs:65-71)
FromBlob(blob) ==
    IF ~Deserialize(blob).ok THEN [ok |-> FALSE, err |-> "BlobDeserializeError"]
    ELSE FromThrift(Deserialize(blob).value)

\* HgManifestEnvelope::into_blob (manifest_envelope.rs:117-120)
IntoBlob(me) == Serialize(IntoThrift(me))

\* thrift_roundtrip (manifest_envelope.rs:148-153)
CallThriftRoundtrip ==
    /\ call = None
    /\ \E me \in HgManifestEnvelope :
          /\ call' = Some([fn |-> "thrift_roundtrip", arg |-> me])
          /\ ret' = Some(FromThrift(IntoThrift(me)))
    /\ UNCHANGED <<importVars, treepackVars, uploadVars, parseVars, decodeVars,
                   streamVars, encodeVars>>

\* blob_roundtrip (manifest_envelope.rs:155-160)
CallBlobRoundtrip ==
    /\ call = None
    /\ \E me \in HgManifestEnvelope :
          /\ call' = Some([fn |-> "blob_roundtrip", arg |-> me])
          /\ ret' = Some(FromBlob(IntoBlob(me)))
    /\ UNCHANGED <<importVars, treepackVars, uploadVars, parseVars, decodeVars,
                   streamVars, encodeVars>>

\* from_thrift on any thrift envelope, as in bad_thrift.
CallFromThrift ==
    /\ call = None
    /\ \E fe \in ThriftManifestEnvelope :
          /\ call' = Some([fn |-> "from_thrift", arg |-> fe])
          /\ ret' = Some(FromThrift(fe))
    /\ UNCHANGED <<importVars, treepackVars, uploadVars, parseVars, decodeVars,
                   streamVars, encodeVars>>

\* from_blob on the blob of any thrift envelope, whole or cut short by n fields.
CallFromBlob ==
    /\ call = None
    /\ \E fe \in ThriftManifestEnvelope, n \in 0..1 :
          LET blob == SubSeq(Serialize(fe), 1, Len(Serialize(fe)) - n) IN
              /\ call' = Some([fn |-> "from_blob", arg |-> blob])
              /\ ret' = Some(FromBlob(blob))
    /\ UNCHANGED <<importVars, treepackVars, uploadVars, parseVars, decodeVars,
                   streamVars, encodeVars>>

\* ------------------------------------------------------------- delta
\* delta::apply(base, &Delta::new_fulltext(text)) on any base and text.
CallApplyFulltext ==
    /\ call = None
    /\ \E base \in ByteStrings, text \in ByteStrings :
          /\ call' = Some([fn |-> "apply_fulltext", arg |-> [base |-> base, text |-> text]])
          /\ ret' = Some(Apply(base, NewFulltext(text)))
    /\ UNCHANGED <<importVars, treepackVars, uploadVars, parseVars, decodeVars,
                   streamVars, encodeVars>>

\* ------------------------------------------------------ parse_changeset
\* One call of parse_changeset(revlog_repo, csid).  The reads of the legacy
\* log are get_changeset (changeset.rs:40) and get_root_manifest (56); calls
\* counts how often the read was started.
ParseInit ==
    /\ shared_revlogcs = [calls |-> 0, st |-> "idle", null_mf |-> FALSE]
    /\ shared_rootmf = [calls |-> 0, st |-> "idle"]
    /\ parents_mf = "idle"
    /\ parsed = [revlogcs |-> "new", rootmf |-> "new", entries |-> "new"]

\* Mutant: every clone reads the revision record for itself.
PollSharedEach(f) ==
    [f EXCEPT !.calls = f.calls + 1, !.st = "running"]

\* Shared::poll on revlogcs: the first clone that is polled starts the read,
\* the others wait for its result.
PollShared(f) ==
    IF f.st = "idle" THEN [f EXCEPT !.calls = f.calls + 1, !.st = "running"] ELSE f

\* Shared::poll on rootmf: the first clone that is polled starts the chain
\* at 46-68, which waits for the revision record.
PollSharedRootmf(f) == IF f.st = "idle" THEN [f EXCEPT !.st = "wait"] ELSE f

\* The future revlogcs of the result is polled (changeset.rs:116).
PollRevlogcs ==
    /\ parsed.revlogcs = "new"
    /\ parsed' = [parsed EXCEPT !.revlogcs = "pending"]
    /\ shared_revlogcs' = PollShared(shared_revlogcs)
    /\ UNCHANGED <<shared_rootmf, parents_mf>>
    /\ UNCHANGED <<importVars, treepackVars, uploadVars, decodeVars, streamVars,
                   encodeVars, callVars>>

\* The future rootmf of the result is polled (changeset.rs:118-137): it
\* polls the shared rootmf, which polls its clone of revlogcs (46-47).
PollRootmf ==
    /\ parsed.rootmf = "new"
    /\ parsed' = [parsed EXCEPT !.rootmf = "pending"]
    /\ shared_rootmf' = PollSharedRootmf(shared_rootmf)
    /\ shared_revlogcs' = IF shared_rootmf' # shared_rootmf
                           THEN PollShared(shared_revlogcs) ELSE shared_revlogcs
    /\ UNCHANGED parents_mf
    /\ UNCHANGED <<importVars, treepackVars, uploadVars, decodeVars, streamVars,
                   encodeVars, callVars>>

\* The stream entries of the result is polled (changeset.rs:70-114): join
\* polls the chain on its clone of revlogcs (70-103) and its clone of the
\* shared rootmf (104).
PollEntries ==
    /\ parsed.entries = "new"
    /\ parsed' = [parsed EXCEPT !.entries = "pending"]
    /\ parents_mf' = "wait"
    /\ shared_rootmf' = PollSharedRootmf(shared_rootmf)
    /\ shared_revlogcs' =
          IF shared_rootmf' # shared_rootmf
          THEN PollShared(PollShared(shared_revlogcs)) ELSE PollShared(shared_revlogcs)
    /\ UNCHANGED <<importVars, treepackVars, uploadVars, decodeVars, streamVars,
                   encodeVars, callVars>>

\* get_changeset(&csid) answers: the record, whose manifest id is null or
\* not, or an error.
GetChangeset ==
    /\ shared_revlogcs.st = "running"
    /\ \E st \in {"ok", "err"}, nl \in BOOLEAN :
          /\ (st = "err" => ~nl)
          /\ shared_revlogcs' = [shared_revlogcs EXCEPT !.st = st, !.null_mf = nl]
    /\ UNCHANGED <<shared_rootmf, parents_mf, parsed>>
    /\ UNCHANGED <<importVars, treepackVars, uploadVars, decodeVars, streamVars,
                   encodeVars, callVars>>

\* The chain of the shared rootmf goes on once the record is there
\* (changeset.rs:49-64): None for the null manifest id, else the read of the
\* root manifest is started; the error of the record is its error.
RootmfAndThen ==
    /\ shared_rootmf.st = "wait"
    /\ shared_revlogcs.st \in {"ok", "err"}
    /\ shared_rootmf' =
          IF shared_revlogcs.st = "err" THEN [shared_rootmf EXCEPT !.st = "err"]
          ELSE IF shared_revlogcs.null_mf THEN [shared_rootmf EXCEPT !.st = "none"]
          ELSE [shared_rootmf EXCEPT !.calls = shared_rootmf.calls + 1, !.st = "running"]
    /\ UNCHANGED <<shared_revlogcs, parents_mf, parsed>>
    /\ UNCHANGED <<importVars, treepackVars, uploadVars, decodeVars, streamVars,
                   encodeVars, callVars>>

\* get_root_manifest(cs.manifestid()) answers.
GetRootManifest ==
    /\ shared_rootmf.st = "running"
    /\ \E st \in {"ok", "err"} : shared_rootmf' = [shared_rootmf EXCEPT !.st = st]
    /\ UNCHANGED <<shared_revlogcs, parents_mf, parsed>>
    /\ UNCHANGED <<importVars, treepackVars, uploadVars, decodeVars, streamVars,
                   encodeVars, callVars>>

\* The chain of entries goes on once the record is there (changeset.rs:75-102):
\* the root manifests of the parents are read; the error of the record is its
\* error.
ParentsAndThen ==
    /\ parents_mf = "wait"
    /\ shared_revlogcs.st \in {"ok", "err"}
    /\ parents_mf' = IF shared_revlogcs.st = "err" THEN "err" ELSE "running"
    /\ UNCHANGED <<shared_revlogcs, shared_rootmf, parsed>>
    /\ UNCHANGED <<importVars, treepackVars, uploadVars, decodeVars, streamVars,
                   encodeVars, callVars>>

\* p1.join(p2) answers.
GetParentsManifests ==
    /\ parents_mf = "running"
    /\ \E st \in {"ok", "err"} : parents_mf' = st
    /\ UNCHANGED <<shared_revlogcs, shared_rootmf, parsed>>
    /\ UNCHANGED <<importVars, treepackVars, uploadVars, decodeVars, streamVars,
                   encodeVars, callVars>>

\* revlogcs of the result resolves with the shared record (changeset.rs:116).
ResolveRevlogcs ==
    /\ parsed.revlogcs = "pending"
    /\ shared_revlogcs.st \in {"ok", "err"}
    /\ parsed' = [parsed EXCEPT !.revlogcs = shared_revlogcs.st]
    /\ UNCHANGED <<shared_revlogcs, shared_rootmf, parents_mf>>
    /\ UNCHANGED <<importVars, treepackVars, uploadVars, decodeVars, streamVars,
                   encodeVars, callVars>>

\* rootmf of the result resolves with the shared rootmf (changeset.rs:118-137):
\* None, the blob generated from the manifest, or an error, that of the shared
\* future or that of generate.
ResolveRootmf ==
    /\ parsed.rootmf = "pending"
    /\ shared_rootmf.st \in {"ok", "none", "err"}
    /\ \E st \in {"ok", "none", "err"} :
          /\ (st = "ok" => shared_rootmf.st = "ok")
          /\ (st = "none" <=> shared_rootmf.st = "none")
          /\ parsed' = [parsed EXCEPT !.rootmf = st]
    /\ UNCHANGED <<shared_revlogcs, shared_rootmf, parents_mf>>
    /\ UNCHANGED <<importVars, treepackVars, uploadVars, decodeVars, streamVars,
                   encodeVars, callVars>>

\* The future under entries resolves (changeset.rs:104-111): with an error as
\* soon as one side of the join has one, else with the stream of the changed
\* entries, empty when there is no root manifest.
ResolveEntries ==
    /\ parsed.entries = "pending"
    /\ \/ /\ parents_mf = "err" \/ shared_rootmf.st = "err"
          /\ parsed' = [parsed EXCEPT !.entries = "err"]
       \/ /\ parents_mf = "ok" /\ shared_rootmf.st \in {"ok", "none"}
          /\ parsed' = [parsed EXCEPT !.entries =
                            IF shared_rootmf.st = "none" THEN "empty" ELSE "ok"]
    /\ UNCHANGED <<shared_revlogcs, shared_rootmf, parents_mf>>
    /\ UNCHANGED <<importVars, treepackVars, uploadVars, decodeVars, streamVars,
                   encodeVars, callVars>>

\* ---------------------------------------------- the uploads of a revision
\* A path is a sequence of elements; the entries under check have the name
\* "a" or none, and are found under the directory "d" or under the root.
MPathElement == {"a"}

MPath == {<<"d">>}

\* RevlogEntry: get_type(), get_name(), get_hash()
RevlogEntry == [type : {"Tree", "File"}, name : Option(MPathElement), hash : Hashes]

\* MPath::join_element_opt(path, element)
JoinElementOpt(path, element) ==
    IF element = None THEN path
    ELSE Some((IF path = None THEN <<>> ELSE path[1]) \o element)

\* RepoPath::root(), RepoPath::DirectoryPath(path), and the path of a file.
RepoPathRoot == [repo_path |-> "RootPath", path |-> <<>>]

DirectoryPath(path) == [repo_path |-> "DirectoryPath", path |-> path]

FilePath(path) == [repo_path |-> "FilePath", path |-> path]

\* UploadHgNodeHash::Checked(hash), UploadHgNodeHash::Supplied(hash)
Checked(hash) == [mode |-> "Checked", hash |-> hash]

Supplied(hash) == [mode |-> "Supplied", hash |-> hash]

\* Mutant: the hash of an entry is trusted as that of a root manifest is.
EntryNodeIdSupplied(entry) == Supplied(entry.hash)

\* let upload_node_id = UploadHgNodeHash::Checked(..) (changeset.rs:173)
EntryNodeId(entry) == Checked(entry.hash)

\* upload_entry(blobrepo, entry, path) (changeset.rs:146-207): the upload it
\* requests, or the error of a path that joins to the root.
UploadEntryRequest(entry, path) ==
    LET joined == JoinElementOpt(path, entry.name) IN
        IF joined = None THEN [ok |-> FALSE, err |-> "joined root path with root manifest"]
        ELSE IF entry.type = "Tree"
        THEN [ok |-> TRUE, upload |-> "UploadHgTreeEntry",
              upload_node_id |-> EntryNodeId(entry), path |-> DirectoryPath(joined[1])]
        ELSE [ok |-> TRUE, upload |-> "UploadHgFileEntry",
              upload_node_id |-> EntryNodeId(entry), path |-> FilePath(joined[1])]

\* The upload of the root manifest (changeset.rs:256-269).
UploadRootRequest(manifest_id) ==
    [ok |-> TRUE, upload |-> "UploadHgTreeEntry",
     upload_node_id |-> Supplied(manifest_id), path |-> RepoPathRoot]

UploadInit == uploads = <<>>

\* The closure on rootmf runs on Some((manifest_id, blob, p1, p2)): it is the
\* first upload of the revision, made during the extraction.
UploadRoot ==
    /\ uploads = <<>>
    /\ \E manifest_id \in Hashes \ {NULL_HASH} :
          uploads' = Append(uploads, UploadRootRequest(manifest_id))
    /\ UNCHANGED <<importVars, treepackVars, decodeVars, streamVars, encodeVars,
                   callVars, parseVars>>

\* entries.map(|(path, entry)| upload_entry(&blobrepo, entry, path))
\* (changeset.rs:281-284) on one changed entry.
UploadEntry ==
    /\ Len(uploads) < MaxUploads
    /\ \E entry \in RevlogEntry, path \in Option(MPath) :
          uploads' = Append(uploads, UploadEntryRequest(entry, path))
    /\ UNCHANGED <<importVars, treepackVars, decodeVars, streamVars, encodeVars,
                   callVars, parseVars>>

\* ------------------------------------------------------- specifications
Init ==
    /\ ImportInit /\ DecodeInit /\ StreamInit /\ EncodeInit /\ CallInit
    /\ ParseInit /\ UploadInit /\ TreepackInit

Spec == Init /\ [][Next]_vars

\* The executor goes on polling what can make progress; every read of the
\* legacy log and every operation of the store answers in the end, one way or
\* the other; and the consumer goes on polling the stream.
Fairness ==
    /\ WF_vars(Pull)
    /\ WF_vars(EmitError)
    /\ WF_vars(CreateChangeset)
    /\ \A r \in Log :
          /\ WF_vars(Extract(r) \/ ExtractFail(r))
          /\ WF_vars(RootUpload(r) \/ RootUploadFail(r))
          /\ WF_vars(EntryUpload(r) \/ EntryUploadFail(r))
          /\ WF_vars(ChangesetComplete(r) \/ ChangesetFail(r))
          /\ WF_vars(ParentFail(r))
          /\ \A i \in 1..2 : WF_vars(StoreLookup(r, i))

\* The import pipeline under these conditions.
SpecLive == Init /\ [][Next]_vars /\ Fairness

DecodeNext == Decode

\* The changegroup decoder, on every chunk.
SpecDecode == Init /\ [][DecodeNext]_vars

StreamNext ==
    \/ PollChunk
    \/ PollInputError
    \/ PollEnd

\* The changegroup decoder on a stream of chunks, gathered by collect().
SpecStream == Init /\ [][StreamNext]_vars

EncodeNext ==
    \/ PartCgChunk
    \/ PartChained

\* changegroup_part: the parts it gives to the packer.
SpecEncode == Init /\ [][EncodeNext]_vars

CallNext ==
    \/ CallFmt
    \/ CallThriftRoundtrip
    \/ CallBlobRoundtrip
    \/ CallFromThrift
    \/ CallFromBlob
    \/ CallApplyFulltext

\* The functions that are called on their own, on every argument.
SpecCalls == Init /\ [][CallNext]_vars

ParseNext ==
    \/ PollRevlogcs
    \/ PollRootmf
    \/ PollEntries
    \/ GetChangeset
    \/ RootmfAndThen
    \/ GetRootManifest
    \/ ParentsAndThen
    \/ GetParentsManifests
    \/ ResolveRevlogcs
    \/ ResolveRootmf
    \/ ResolveEntries

\* parse_changeset on one revision, its futures polled in any order.
SpecParse == Init /\ [][ParseNext]_vars

UploadNext ==
    \/ UploadRoot
    \/ UploadEntry

\* The uploads requested for one revision.
SpecUpload == Init /\ [][UploadNext]_vars

TreepackNext ==
    \/ TreepackPull
    \/ TreepackInputEnd
    \/ TreepackInputError
    \/ \E i \in 1..MaxInputs : TreepackResolve(i)
    \/ TreepackYield
    \/ TreepackEnd

\* treepack_part: the parts it gives to the packer.
SpecTreepack == Init /\ [][TreepackNext]_vars

\* The import pipeline, followed from its command line on.
InitSelect ==
    /\ SelectInit /\ DecodeInit /\ StreamInit /\ EncodeInit /\ CallInit
    /\ ParseInit /\ UploadInit /\ TreepackInit

SpecSelect == InitSelect /\ [][Next]_vars

\* ================================================================ claims
Range(q) == {q[k] : k \in 1..Len(q)}

Parents(r) == Range(cs_parents[r])

\* C1: a changeset handle is resolved successfully only when, for each parent
\* of the revision (p1 and p2 when present), create was given a handle of that
\* parent, the session's handle when the parent has one, and that handle has
\* resolved successfully.
C1_ParentsCompleteFirst ==
    \A r \in Log :
        cshandle[r] = "ok" =>
            \A i \in 1..Len(cs_parents[r]) :
                LET p == cs_parents[r][i] IN
                    /\ i \in DOMAIN phandles[r]
                    /\ phandles[r][i].rev = p
                    /\ HandleState(phandles[r][i]) = "ok"
                    /\ (p \in parent_changeset_handles =>
                            /\ phandles[r][i].from = "map"
                            /\ cshandle[p] = "ok")

\* A merge has completed, after both of its parents of this session.
C1_Witness ==
    \E r \in Log :
        /\ cshandle[r] = "ok"
        /\ Len(cs_parents[r]) = 2
        /\ \A i \in 1..2 : phandles[r][i].from = "map" /\ cshandle[cs_parents[r][i]] = "ok"

\* C2: the handle of a revision that has a root tree is resolved successfully
\* only when the upload of that root tree has completed.
C2_RootTreeCompleteFirst ==
    \A r \in Log :
        (cshandle[r] = "ok" /\ rootmf[r] # "absent") => rootmf[r] = "ok"

\* A revision with a root tree has completed.
C2_Witness == \E r \in Log : cshandle[r] = "ok" /\ rootmf[r] = "ok"

\* C3: the stream yields its elements in the order of the source: what has
\* been yielded precedes, in source order, all that is in the window or still
\* in the source, whichever extractions have finished; an upload has been
\* initiated exactly for the revisions yielded as completion futures.
C3_EmittedInSourceOrder ==
    /\ \A i, j \in 1..Len(emitted) : i < j => emitted[i].rev < emitted[j].rev
    /\ \A i \in 1..Len(emitted) :
          \A w \in Range(window) \cup Range(changesets) : emitted[i].rev < w
    /\ \A i, j \in 1..Len(window) : i < j => window[i] < window[j]
    /\ \A r \in Log :
          cshandle[r] # "none" <=> \E k \in 1..Len(emitted) :
                                        emitted[k] = [rev |-> r, item |-> "future"]
    /\ parent_changeset_handles = {r \in Log : cshandle[r] # "none"}

\* After a first element was yielded, a later extraction has finished before
\* an earlier one and waits in the window.
C3_Witness ==
    /\ Len(emitted) >= 1
    /\ Len(window) = 2
    /\ ext[window[1]] = "running"
    /\ ext[window[2]] = "ok"

\* C4: when the closure runs on a revision one of whose parents has no entry
\* in the map, an import from the start panics and makes no handle, and any
\* other import makes the handle, with a store lookup for the missing parent.
C4_MissingParentHandle ==
    [][\A r \in Log :
          (/\ ext[r] = "ok"
           /\ ext'[r] = "consumed"
           /\ \E p \in Parents(r) : p \notin parent_changeset_handles)
          => IF is_import_from_beggining
             THEN /\ panicked'
                  /\ cshandle'[r] = "none"
                  /\ emitted' = emitted
             ELSE /\ ~panicked'
                  /\ cshandle'[r] = "pending"
                  /\ \A i \in 1..Len(cs_parents[r]) :
                        cs_parents[r][i] \notin parent_changeset_handles =>
                            phandles'[r][i] = [from |-> "store",
                                               rev |-> cs_parents[r][i],
                                               st |-> "pending"]]_vars

\* An import from the start has panicked.
C4_Witness == panicked /\ is_import_from_beggining

\* The other case of C4: a partial import went on with a store lookup.
C4_WitnessFallback ==
    \E r \in Log : \E i \in 1..Len(phandles[r]) :
        /\ ~is_import_from_beggining
        /\ phandles[r][i].from = "store"
        /\ cshandle[r] = "ok"

\* C5 as claimed: the failure of the extraction of a revision is the failure
\* of its own completion handle, and no failure aborts the import.
C5_Original ==
    /\ \A r \in Log : ext[r] = "errored" => cshandle[r] = "failed"
    /\ ~panicked

\* C5 amended: an upload failure is the failure of the revision's own handle,
\* which the stream has yielded; an extraction failure is yielded as an error
\* element in the place of the revision, which gets no handle; and the step in
\* which a revision fails changes nothing of any other revision.
C5_FailureStaysLocal ==
    /\ [](\A r \in Log :
            /\ ext[r] = "errored" =>
                  /\ cshandle[r] = "none"
                  /\ \E k \in 1..Len(emitted) :
                        emitted[k] = [rev |-> r, item |-> "error"]
            /\ cshandle[r] = "failed" =>
                  \E k \in 1..Len(emitted) :
                        emitted[k] = [rev |-> r, item |-> "future"])
    /\ [][\A r \in Log :
            (\/ ext[r] = "running" /\ ext'[r] = "err"
             \/ ext[r] = "err" /\ ext'[r] = "errored"
             \/ cshandle[r] = "pending" /\ cshandle'[r] = "failed")
            => /\ ~panicked'
               /\ changesets' = changesets
               /\ \A s \in Log \ {r} :
                     /\ ext'[s] = ext[s]
                     /\ cshandle'[s] = cshandle[s]
                     /\ phandles'[s] = phandles[s]
                     /\ rootmf'[s] = rootmf[s]
                     /\ entries'[s] = entries[s]]_vars

\* After the extraction of one revision and the upload of another have
\* failed, a later revision has completed.
C5_Witness ==
    \E r, u, s \in Log :
        /\ r < s /\ u < s
        /\ ext[r] = "errored"
        /\ cshandle[u] = "failed"
        /\ cshandle[s] = "ok"

\* C6 as claimed: a revision one of whose parents has failed, in extraction
\* or in upload, never completes successfully.
C6_Original ==
    \A r \in Log : \A p \in Parents(r) :
        (ext[p] = "errored" \/ cshandle[p] = "failed") => cshandle[r] # "ok"

\* The revisions r depends on through handles of this session.
RECURSIVE HandleAncestors(_)
HandleAncestors(r) ==
    LET direct == {phandles[r][i].rev : i \in {j \in 1..Len(phandles[r]) :
                                                  phandles[r][j].from = "map"}}
    IN  direct \cup UNION {HandleAncestors(p) : p \in direct}

\* C6 amended: a revision never completes successfully when the upload of one
\* of its parents has failed, nor when that of a revision it depends on through
\* handles of this session has; when the extraction of a parent has failed, it
\* completes only in a partial import, after a successful store lookup of that
\* parent.
C6_FailurePropagates ==
    \A r \in Log :
        cshandle[r] = "ok" =>
            /\ \A a \in HandleAncestors(r) : cshandle[a] = "ok"
            /\ \A i \in 1..Len(cs_parents[r]) :
                  LET p == cs_parents[r][i] IN
                      /\ cshandle[p] # "failed"
                      /\ ext[p] = "errored" =>
                            /\ ~is_import_from_beggining
                            /\ i \in DOMAIN phandles[r]
                            /\ phandles[r][i] = [from |-> "store", rev |-> p, st |-> "ok"]

\* A chain of three revisions has failed, child after parent.
C6_Witness ==
    \E a, b, c \in Log :
        /\ a \in Parents(b) /\ b \in Parents(c)
        /\ {a, b, c} \subseteq parent_changeset_handles
        /\ cshandle[a] = "failed" /\ cshandle[b] = "failed" /\ cshandle[c] = "failed"

\* C7 as claimed: the upload of the root tree of a revision starts only when
\* the entries of the revision are uploaded.
C7_Original ==
    \A r \in Log :
        rootmf[r] \in {"prepared", "ok"} => entries[r] \in {"empty", "uploaded"}

\* C7 amended: the upload of the root tree is initiated first, during the
\* extraction; entries are uploaded only once the changeset creation of the
\* revision was initiated, that is after it; and the changeset completes last,
\* after the root tree, all the entries and the parent handles.
C7_UploadOrder ==
    \A r \in Log :
        /\ entries[r] = "uploaded" =>
              /\ cshandle[r] \in {"pending", "ok"}
              /\ rootmf[r] \in {"prepared", "ok"}
        /\ rootmf[r] = "ok" => cshandle[r] \in {"pending", "ok"}
        /\ cshandle[r] = "ok" =>
              /\ rootmf[r] \in {"absent", "ok"}
              /\ entries[r] \in {"empty", "uploaded"}
              /\ Len(phandles[r]) = Len(cs_parents[r])
              /\ \A i \in 1..Len(phandles[r]) : HandleState(phandles[r][i]) = "ok"

\* A revision with a root tree, an entry and a parent has completed.
C7_Witness ==
    \E r \in Log :
        /\ cshandle[r] = "ok"
        /\ rootmf[r] = "ok"
        /\ entries[r] = "uploaded"
        /\ Len(phandles[r]) >= 1

\* C8: at most BufferSize revisions are in the window, extracted or being
\* extracted and not yet consumed; the window is what buffered() holds.
C8_WindowBounded ==
    /\ Len(window) <= BufferSize
    /\ Cardinality({r \in Log : ext[r] \in {"running", "ok", "err"}}) <= BufferSize
    /\ Range(window) = {r \in Log : ext[r] \in {"running", "ok", "err"}}

\* The window is full of finished extractions behind a running one, and the
\* source has more.
C8_Witness ==
    /\ Len(window) = BufferSize
    /\ changesets # <<>>
    /\ ext[window[1]] = "running"
    /\ \A i \in 2..Len(window) : ext[window[i]] = "ok"

\* C9: a chunk whose base is not the null hash, or whose node differs from
\* its linknode, is answered with an error and no object.
C9_BadChunkRejected ==
    chunk # None =>
        LET c == chunk[1] IN
            (c.base # NULL_HASH \/ c.node # c.linknode) =>
                /\ decoded[1].ok = FALSE
                /\ decoded[1].err = (IF c.base # NULL_HASH THEN "base" ELSE "linknode")

\* A chunk with the null base was rejected for its linknode alone.
C9_Witness ==
    /\ chunk # None
    /\ chunk[1].base = NULL_HASH
    /\ chunk[1].node # chunk[1].linknode
    /\ chunk[1].delta[1].content # <<>>
    /\ decoded[1].ok = FALSE

\* The object convert_to_revlog_changesets is to make of an accepted chunk.
ExpectedObject(c) ==
    [ok |-> TRUE,
     node |-> c.node,
     cs |-> [content |-> Apply(<<>>, c.delta),
             p1 |-> IF c.p1 = NULL_HASH THEN None ELSE Some(c.p1),
             p2 |-> IF c.p2 = NULL_HASH THEN None ELSE Some(c.p2)]]

C13_ChangegroupParts ==
    LET n == Len(changelogentries)
        trailer == <<[part |-> "SectionEnd", section |-> "Changeset", chunk |-> None],
                     [part |-> "SectionEnd", section |-> "Manifest", chunk |-> None],
                     [part |-> "End", section |-> "", chunk |-> None]>>
        sent == Len(cgdata) - n
    IN  /\ sent \in 0..3
        /\ (chained = None) <=> (sent = 0)
        /\ \A i \in 1..n :
              /\ cgdata[i].part = "CgChunk"
              /\ cgdata[i].section = "Changeset"
              /\ cgdata[i].chunk[1].node = changelogentries[i].node
              /\ cgdata[i].chunk[1].base = NULL_HASH
              /\ cgdata[i].chunk[1].linknode = changelogentries[i].node
        /\ \A k \in 1..sent : cgdata[n + k] = trailer[k]
        /\ (chained # None /\ chained[1] = <<>>) <=> (sent = 3)

\* Two entries with different nodes were encoded, and the three closing parts.
C13_Witness ==
    /\ Len(changelogentries) = 2
    /\ changelogentries[1].node # changelogentries[2].node
    /\ Len(cgdata) = 5
    /\ cgdata[5].part = "End"

\* The empty input: the three closing parts alone.
C13_WitnessEmpty ==
    /\ changelogentries = <<>>
    /\ Len(cgdata) = 3
    /\ cgdata[3].part = "End"

\* C14 as claimed: the chunk of every entry passes the checks of the decoder
\* and decodes to the node of the entry and to an object with the content and
\* the parents of the entry's.
C14_Original ==
    \A i \in 1..Len(changelogentries) :
        LET e == changelogentries[i]
            c == cgdata[i].chunk[1]
            d == ConvertChunk(c)
        IN  /\ c.base = NULL_HASH
            /\ c.node = c.linknode
            /\ d.ok
            /\ d.node = e.node
            /\ e.blobnode.blob = Some(d.cs.content)
            /\ d.cs.p1 = e.blobnode.p1
            /\ d.cs.p2 = e.blobnode.p2

\* The revisions the import has taken from the source.
Selected == {r \in Log : ext[r] # "src"}

\* The history read so far is linear: the parent of a revision is the
\* revision before it, and the first has none.
Linear ==
    \A r \in Log :
        ext[r] \in {"ok", "consumed"} =>
            cs_parents[r] = (IF r = 1 THEN <<>> ELSE <<r - 1>>)

\* The import has ended, and nothing has failed.
FinishedWell ==
    /\ changesets = <<>>
    /\ window = <<>>
    /\ ~panicked
    /\ \A r \in Log : ext[r] \in {"src", "consumed"} /\ cshandle[r] \in {"none", "ok"}

\* C15: in an import of a linear history from the start, a changeset that is
\* stored has for parent the changeset this import stored for its source
\* parent; no revision is yielded twice; and when the import has ended and
\* nothing has failed, the stored changesets are those of the revisions taken
\* from the source, one each.
C15_LinearImport ==
    (is_import_from_beggining /\ Linear) =>
        /\ \A r \in Log :
              cshandle[r] = "ok" =>
                  /\ phandles[r] = (IF r = 1 THEN <<>>
                                    ELSE <<[from |-> "map", rev |-> r - 1, st |-> "shared"]>>)
                  /\ r > 1 => cshandle[r - 1] = "ok"
        /\ \A i, j \in 1..Len(emitted) : emitted[i].rev = emitted[j].rev => i = j
        /\ FinishedWell =>
              /\ {r \in Log : cshandle[r] = "ok"} = Selected
              /\ Len(emitted) = Cardinality(Selected)
              /\ \A r \in Log \ Selected : cshandle[r] = "none"

\* The whole log, linear, was imported from the start: a root with no root
\* tree, and children with a root tree and entries.
C15_Witness ==
    /\ is_import_from_beggining
    /\ Linear
    /\ FinishedWell
    /\ Selected = Log
    /\ rootmf[1] = "absent" /\ entries[1] = "empty"
    /\ \A r \in Log \ {1} : rootmf[r] = "ok" /\ entries[r] = "uploaded"

\* C16 as claimed: Error is written as "0", Success with d >= 0 as the decimal
\* of 1 + d and Success with d < 0 as the decimal of -1 + d, for every d.
C16_Original ==
    (call # None /\ call[1].fn = "fmt") =>
        LET res == call[1].arg
            d == res.heads_num_diff
        IN  /\ ~ret[1].panic
            /\ ret[1].str = (IF res.tag = "Error" THEN <<"0">>
                             ELSE IF d >= 0 THEN IntToString(1 + d)
                             ELSE IntToString(-1 + d))

\* C16 amended: the same for every d for which 1 + d (d >= 0) or -1 + d
\* (d < 0) is in the range of i64; Success{2} gives "3", Success{-1} gives
\* "-2" and Error gives "0".  At the two ends of the range the sum overflows:
\* the call panics, or writes the decimal of the wrapped sum.
C16_StatusEncoding ==
    (call # None /\ call[1].fn = "fmt") =>
        LET res == call[1].arg
            d == res.heads_num_diff
            sum == IF d >= 0 THEN 1 + d ELSE -1 + d
        IN  /\ res.tag = "Error" => ret[1] = [panic |-> FALSE, str |-> <<"0">>]
            /\ (res.tag = "Success" /\ sum \in I64) =>
                    ret[1] = [panic |-> FALSE, str |-> IntToString(sum)]
            /\ (res.tag = "Success" /\ d = 2) => ret[1].str = <<"3">>
            /\ (res.tag = "Success" /\ d = -1) => ret[1].str = <<"-", "2">>
            /\ (res.tag = "Success" /\ sum \notin I64) =>
                    (ret[1].panic \/ ret[1].str = IntToString(Wrap(sum)))

\* Success{-1} was written as "-2".
C16_Witness ==
    /\ call = Some([fn |-> "fmt", arg |-> [tag |-> "Success", heads_num_diff |-> -1]])
    /\ ret = Some([panic |-> FALSE, str |-> <<"-", "2">>])

\* C17: for every envelope, from_thrift(into_thrift(e)) and
\* from_blob(into_blob(e)) succeed and return e.
C17_EnvelopeRoundtrip ==
    (call # None /\ call[1].fn \in {"thrift_roundtrip", "blob_roundtrip"}) =>
        ret = Some([ok |-> TRUE, value |-> call[1].arg])

\* An envelope with empty contents, no first parent and a computed node id
\* other than its node id went through a blob and back.
C17_Witness ==
    /\ call # None /\ call[1].fn = "blob_roundtrip"
    /\ call[1].arg.contents = <<>>
    /\ call[1].arg.node_id # call[1].arg.computed_node_id
    /\ call[1].arg.p1 = None /\ call[1].arg.p2 # None
    /\ ret # None /\ ret[1].ok

\* A thrift envelope is malformed: its contents are missing or one of its
\* hashes has not the length of a hash.
Malformed(fe) ==
    \/ fe.contents = None
    \/ Len(fe.node_id) # HashLen
    \/ Len(fe.computed_node_id) # HashLen
    \/ fe.p1 # None /\ Len(fe.p1[1]) # HashLen
    \/ fe.p2 # None /\ Len(fe.p2[1]) # HashLen

\* C18: from_thrift of a malformed thrift envelope, and from_blob of its
\* blob, return the error InvalidThrift and no envelope; a blob cut short
\* returns the error BlobDeserializeError.
C18_MalformedEnvelopeRejected ==
    /\ (call # None /\ call[1].fn = "from_thrift" /\ Malformed(call[1].arg)) =>
          ret = Some([ok |-> FALSE, err |-> "InvalidThrift"])
    /\ (call # None /\ call[1].fn = "from_blob") =>
          LET blob == call[1].arg IN
              IF blob = <<>> \/ blob[Len(blob)].id # 0
              THEN ret = Some([ok |-> FALSE, err |-> "BlobDeserializeError"])
              ELSE (\A i \in 1..Len(blob) : blob[i].id # 5) =>
                       ret = Some([ok |-> FALSE, err |-> "InvalidThrift"])

\* A thrift envelope with hashes of the right length and no contents was
\* rejected.
C18_Witness ==
    /\ call # None /\ call[1].fn = "from_thrift"
    /\ call[1].arg.contents = None
    /\ Len(call[1].arg.node_id) = HashLen
    /\ Len(call[1].arg.computed_node_id) = HashLen
    /\ call[1].arg.p1 # None /\ Len(call[1].arg.p1[1]) = HashLen
    /\ call[1].arg.p2 = None
    /\ ret = Some([ok |-> FALSE, err |-> "InvalidThrift"])

\* The other case of C18: contents are there and the node id is one byte short.
C18_WitnessHashLength ==
    /\ call # None /\ call[1].fn = "from_thrift"
    /\ call[1].arg.contents # None
    /\ Len(call[1].arg.node_id) = HashLen - 1
    /\ ret = Some([ok |-> FALSE, err |-> "InvalidThrift"])

\* C19: apply(b, new_fulltext(x)) is x, for every base b and every text x.
C19_FulltextLaw ==
    (call # None /\ call[1].fn = "apply_fulltext") => ret = Some(call[1].arg.text)

\* A fulltext was applied to a base that is not empty and differs from it.
C19_Witness ==
    /\ call # None /\ call[1].fn = "apply_fulltext"
    /\ call[1].arg.base # <<>>
    /\ call[1].arg.text # <<>>
    /\ call[1].arg.text # call[1].arg.base
    /\ ret = Some(call[1].arg.text)

\* C20: the map changes only in the step that initiates the upload of the
\* oldest revision of the window, and by the entry of that revision alone;
\* the entries it has then are of revisions before it in source order, and a
\* parent whose upload was initiated earlier is found in it; no entry is ever
\* removed.
C20_MapSingleWriter ==
    /\ [][parent_changeset_handles' # parent_changeset_handles =>
            \E r \in Log :
                /\ window # <<>> /\ r = Head(window)
                /\ ext[r] = "ok" /\ ext'[r] = "consumed"
                /\ cshandle[r] = "none" /\ cshandle'[r] = "pending"
                /\ r \notin parent_changeset_handles
                /\ parent_changeset_handles' = parent_changeset_handles \cup {r}
                /\ \A q \in parent_changeset_handles : q < r
                /\ \A i \in 1..Len(cs_parents[r]) :
                      cshandle[cs_parents[r][i]] # "none" =>
                          phandles'[r][i] = [from |-> "map", rev |-> cs_parents[r][i],
                                             st |-> "shared"]]_vars
    /\ [][parent_changeset_handles \subseteq parent_changeset_handles']_vars
    /\ [][(\E r \in Log : cshandle[r] = "none" /\ cshandle'[r] # "none") =>
            parent_changeset_handles' # parent_changeset_handles]_vars

\* The map holds every revision of the log, and a child has found in it the
\* handle of a parent that is still in flight.
C20_Witness ==
    /\ parent_changeset_handles = Log
    /\ \E r \in Log : \E i \in 1..Len(phandles[r]) :
          /\ phandles[r][i].from = "map"
          /\ cshandle[phandles[r][i].rev] = "pending"

\* The children of p that hold a clone of the handle the session made for p.
Holders(p) ==
    {c \in Log : \E i \in 1..Len(phandles[c]) :
                     phandles[c][i] = [from |-> "map", rev |-> p, st |-> "shared"]}

\* C21: the upload of a revision is initiated once: its completion future is
\* yielded once, and its handle, once made, is never made again and keeps the
\* outcome it has resolved to.  A child created after it holds a clone of that
\* handle, not a computation of its own, and every holder observes the outcome
\* of the handle: none completes unless it succeeded, none is left completed
\* when it failed.
C21_SharedHandle ==
    /\ [](\A p \in Log :
            /\ Cardinality({k \in 1..Len(emitted) :
                               emitted[k] = [rev |-> p, item |-> "future"]})
                  = (IF cshandle[p] = "none" THEN 0 ELSE 1)
            /\ \A c \in Log : \A i \in 1..Len(phandles[c]) :
                  (phandles[c][i].rev = p /\ cshandle[p] # "none") => c \in Holders(p)
            /\ \A c \in Holders(p) :
                  /\ cshandle[p] # "none"
                  /\ cshandle[c] = "ok" => cshandle[p] = "ok"
                  /\ cshandle[p] = "failed" => cshandle[c] = "pending")
    /\ [][\A p \in Log :
            /\ cshandle[p] # "none" => cshandle'[p] # "none"
            /\ cshandle[p] \in {"ok", "failed"} => cshandle'[p] = cshandle[p]
            /\ cshandle[p] # "none" => emitted' = emitted \/ emitted'[Len(emitted')].rev # p
          ]_vars

\* Two children and the yielded completion future hold the handle of a parent
\* whose upload is still in flight.
C21_Witness ==
    \E p \in Log :
        /\ cshandle[p] = "pending"
        /\ Cardinality(Holders(p)) >= 2
        /\ \E k \in 1..Len(emitted) : emitted[k] = [rev |-> p, item |-> "future"]

\* The holders of a handle that has failed are failing with it, one by one.
C21_WitnessFailed ==
    \E p \in Log : \E c, d \in Log :
        /\ c # d
        /\ cshandle[p] = "failed"
        /\ c \in Holders(p) /\ cshandle[c] = "pending"
        /\ p \in Range(cs_parents[d]) /\ cshandle[d] = "failed"

\* C22: in one call of parse_changeset the revision record is read once and
\* the root manifest at most once, however many of the three futures are
\* polled; what a future of the result resolves to is what the shared read
\* has: none succeeds unless the record was read, the root tree and the
\* entries succeed only with the root manifest the shared future has (none
\* for both, or the same one), and after a failed read every future that
\* depends on it has failed when it has resolved.  A read that has answered
\* is not made again.
C22_ParseShares ==
    /\ [](/\ shared_revlogcs.calls =
                (IF \E f \in DOMAIN parsed : parsed[f] # "new" THEN 1 ELSE 0)
          /\ shared_rootmf.calls <= 1
          /\ shared_rootmf.calls = 1 =>
                (shared_revlogcs.st = "ok" /\ ~shared_revlogcs.null_mf)
          /\ parsed.revlogcs \in {"ok", "err"} => parsed.revlogcs = shared_revlogcs.st
          /\ parsed.rootmf \in {"ok", "none"} =>
                (shared_revlogcs.st = "ok" /\ shared_rootmf.st = parsed.rootmf)
          /\ parsed.entries \in {"ok", "empty"} =>
                /\ shared_revlogcs.st = "ok"
                /\ shared_rootmf.st = (IF parsed.entries = "empty" THEN "none" ELSE "ok")
          /\ shared_revlogcs.st = "err" =>
                \A f \in DOMAIN parsed : parsed[f] \in {"new", "pending", "err"}
          /\ shared_rootmf.st = "err" =>
                \A f \in {"rootmf", "entries"} : parsed[f] \in {"new", "pending", "err"})
    /\ [][/\ shared_revlogcs.st \in {"ok", "err"} => shared_revlogcs' = shared_revlogcs
          /\ shared_rootmf.st \in {"ok", "none", "err"} => shared_rootmf' = shared_rootmf
         ]_vars

\* The three futures were polled, the record and the root manifest were read
\* once each, and the three have resolved.
C22_Witness ==
    /\ shared_revlogcs.calls = 1
    /\ shared_rootmf.calls = 1
    /\ parsed = [revlogcs |-> "ok", rootmf |-> "ok", entries |-> "ok"]

\* The read of the record has failed, and the three futures with it.
C22_WitnessFailed ==
    /\ shared_revlogcs.st = "err"
    /\ shared_revlogcs.calls = 1
    /\ parsed = [revlogcs |-> "err", rootmf |-> "err", entries |-> "err"]

\* The read of the root manifest has failed: the record is there, the root
\* tree and the entries have failed.
C22_WitnessRootFailed ==
    /\ shared_rootmf.st = "err"
    /\ parsed = [revlogcs |-> "ok", rootmf |-> "err", entries |-> "err"]

\* C23: an upload in the supplied-hash mode is that of a root tree, and the
\* root tree is uploaded in that mode: every upload of a file, and every
\* upload of a tree under a path other than the root, is in the checked mode
\* with the hash of its entry; upload_entry never uploads under the root path.
C23_SuppliedOnlyForRoot ==
    \A i \in 1..Len(uploads) :
        uploads[i].ok =>
            LET u == uploads[i] IN
                /\ (u.upload_node_id.mode = "Supplied") <=> (u.path = RepoPathRoot)
                /\ u.upload_node_id.mode \in {"Supplied", "Checked"}
                /\ u.upload = "UploadHgFileEntry" => u.upload_node_id.mode = "Checked"
                /\ u.path.repo_path = "RootPath" =>
                      (i = 1 /\ u.upload = "UploadHgTreeEntry")
                /\ u.path.repo_path = "RootPath" <=> u.path.path = <<>>

\* A root tree was uploaded, and then an entry that is a tree.
C23_Witness ==
    /\ Len(uploads) = 2
    /\ uploads[1].path = RepoPathRoot
    /\ uploads[1].upload_node_id.mode = "Supplied"
    /\ uploads[2].ok
    /\ uploads[2].upload = "UploadHgTreeEntry"
    /\ uploads[2].upload_node_id.mode = "Checked"

\* A file and an entry without a name under the root, which is not uploaded.
C23_WitnessFile ==
    /\ Len(uploads) = 2
    /\ uploads[1].ok /\ uploads[1].upload = "UploadHgFileEntry"
    /\ uploads[1].upload_node_id.mode = "Checked"
    /\ ~uploads[2].ok

\* The sub-range the command line m asks for, element by element: of the
\* source, the named revision alone or the whole log, the elements after the
\* first skip, commits-limit of them at most.
Asked(m) ==
    LET source == IF m.changeset = None THEN [i \in Log |-> i] ELSE <<m.changeset[1]>>
        skip == IF m.skip = None THEN 0 ELSE m.skip[1]
        left == IF skip >= Len(source) THEN 0 ELSE Len(source) - skip
        kept == IF m.limit = None \/ m.limit[1] >= left THEN left ELSE m.limit[1]
    IN  [i \in 1..kept |-> source[skip + i]]

\* C24: the revisions that enter the pipeline are those of the sub-range
\* asked for, in source order: what was taken from the source and what is left
\* in it make up the sub-range, what is left being its end; the stream yields
\* in that order; and nothing is extracted or uploaded, and no handle is made,
\* for a revision outside of it.
C24_SkipThenLimit ==
    LET asked == Asked(matches[1])
        n == Len(asked)
        taken == {r \in Log : ext[r] # "src"}
    IN  /\ Len(changesets) <= n
        /\ changesets = SubSeq(asked, n - Len(changesets) + 1, n)
        /\ taken = {asked[i] : i \in 1..(n - Len(changesets))}
        /\ \A i, j \in 1..Len(emitted) : i < j => emitted[i].rev < emitted[j].rev
        /\ \A i \in 1..Len(emitted) : emitted[i].rev \in Range(asked)
        /\ \A r \in Log \ Range(asked) :
              /\ cshandle[r] = "none"
              /\ rootmf[r] = "none" /\ entries[r] = "none"
              /\ r \notin parent_changeset_handles
        /\ is_import_from_beggining =
              (matches[1].changeset = None /\ matches[1].skip = None)

\* With skip 1 and commits-limit 1 on a log of more than two revisions, the
\* second revision alone was imported, its root tree and entries uploaded.
C24_Witness ==
    /\ matches = Some([changeset |-> None, skip |-> Some(1), limit |-> Some(1)])
    /\ changesets = <<>> /\ window = <<>>
    /\ emitted = <<[rev |-> 2, item |-> "future"]>>
    /\ cshandle[2] = "ok" /\ rootmf[2] = "ok" /\ entries[2] = "uploaded"

\* The entries whose parts the packer was given: those buffered() has
\* yielded, but the last when that was an error.
TreepackSent ==
    IF tp_yielded > 0 /\ tp_entries[tp_yielded].st = "err" THEN tp_yielded - 1
    ELSE tp_yielded

\* C25: the parts are, for each entry in the order of the input, whichever
\* future resolved first, HistoryMeta and DataMeta with the path of the entry
\* and the count 1, History with its node, parents and linknode, and Data with
\* the null delta base and the fulltext of its content, in this order; End
\* comes once, after the parts of the last entry, when the input has ended;
\* and the buffer never holds more futures than its size.
C25_TreepackParts ==
    LET sent == TreepackSent IN
        /\ Len(tp_entries) - tp_yielded <= TreepackBufferSize
        /\ Len(wirepack_parts) = 4 * sent + (IF tp_stream = "done" THEN 1 ELSE 0)
        /\ \A i \in 1..sent :
              LET e == tp_entries[i].input
                  k == 4 * (i - 1)
                  path == IF e.name = None /\ e.basepath = None
                          THEN [repo_path |-> "RootPath", path |-> <<>>]
                          ELSE [repo_path |-> "DirectoryPath",
                                path |-> (IF e.basepath = None THEN <<>> ELSE e.basepath[1])
                                         \o (IF e.name = None THEN <<>> ELSE e.name[1])]
              IN  /\ tp_entries[i].st = "ok"
                  /\ wirepack_parts[k + 1] =
                        [part |-> "HistoryMeta", path |-> path, entry_count |-> 1]
                  /\ wirepack_parts[k + 2].part = "History"
                  /\ wirepack_parts[k + 2].node = e.node
                  /\ wirepack_parts[k + 2].linknode = e.linknode
                  /\ wirepack_parts[k + 2].p1 = (IF e.p1 = None THEN NULL_HASH ELSE e.p1[1])
                  /\ wirepack_parts[k + 2].p2 = (IF e.p2 = None THEN NULL_HASH ELSE e.p2[1])
                  /\ wirepack_parts[k + 3] =
                        [part |-> "DataMeta", path |-> path, entry_count |-> 1]
                  /\ wirepack_parts[k + 4].part = "Data"
                  /\ wirepack_parts[k + 4].node = e.node
                  /\ wirepack_parts[k + 4].delta_base = NULL_HASH
                  /\ wirepack_parts[k + 4].delta = <<Insertion(e.content)>>
                  /\ \A base \in ByteStrings :
                        Apply(base, wirepack_parts[k + 4].delta) = e.content
        /\ tp_stream = "done" =>
              /\ sent = Len(tp_entries)
              /\ wirepack_parts[Len(wirepack_parts)] = [part |-> "End"]
        /\ (tp_yielded > 0 /\ tp_entries[tp_yielded].st = "err") => tp_stream = "failed"

\* Three entries, of which the second resolved before the first: the twelve
\* parts in the order of the input, and End.
C25_Witness ==
    /\ Len(tp_entries) = 3
    /\ tp_stream = "done"
    /\ Len(wirepack_parts) = 13
    /\ tp_entries[1].input.node # tp_entries[2].input.node
    /\ tp_entries[1].input.content # tp_entries[3].input.content
    /\ wirepack_parts[2].node = tp_entries[1].input.node
    /\ wirepack_parts[6].node = tp_entries[2].input.node

\* The buffer is full, the younger of its futures has resolved and waits for
\* the older, and a third entry has not been pulled.
C25_WitnessOutOfOrder ==
    /\ tp_yielded = 0
    /\ Len(tp_entries) = TreepackBufferSize
    /\ tp_entries[1].st = "running"
    /\ tp_entries[2].st = "ok"
    /\ tp_stream = "open"
    /\ wirepack_parts = <<>>

\* C26: the object of an accepted chunk has no first parent exactly when p1
\* of the chunk is the null hash, and else has p1 of the chunk for first
\* parent; the same for p2 and the second parent; the two are not exchanged,
\* nor is one moved to the place of the other that is absent.
C26_NullParentsAbsent ==
    (chunk # None /\ decoded[1].ok) =>
        LET c == chunk[1]
            cs == decoded[1].cs
        IN  /\ (cs.p1 = None) <=> (c.p1 = NULL_HASH)
            /\ (cs.p2 = None) <=> (c.p2 = NULL_HASH)
            /\ c.p1 # NULL_HASH => (Len(cs.p1) = 1 /\ cs.p1[1] = c.p1)
            /\ c.p2 # NULL_HASH => (Len(cs.p2) = 1 /\ cs.p2[1] = c.p2)
            /\ NULL_HASH \notin Range(cs.p1) \cup Range(cs.p2)

\* A chunk with the null hash for p1 and another hash for p2 was decoded.
C26_Witness ==
    /\ chunk # None
    /\ chunk[1].p1 = NULL_HASH /\ chunk[1].p2 # NULL_HASH
    /\ decoded[1].ok
    /\ decoded[1].cs.p1 = None
    /\ decoded[1].cs.p2 = Some(chunk[1].p2)

\* Both parents of a chunk are null, and both are absent from the object.
C26_WitnessNoParents ==
    /\ chunk # None
    /\ chunk[1].p1 = NULL_HASH /\ chunk[1].p2 = NULL_HASH
    /\ decoded[1].ok
    /\ decoded[1].cs.p1 = None /\ decoded[1].cs.p2 = None

\* The sum fmt computes for heads_num_diff = d is in the range of i64.
InRange(d) == (IF d >= 0 THEN 1 + d ELSE -1 + d) \in I64

\* C27: for heads_num_diff in the range where the sum does not overflow,
\* Success is written and is written as neither "0", which is what Error is
\* written as, nor "-1"; and it is written as no string that Success with
\* another heads_num_diff of that range is written as.
C27_StatusInjective ==
    (call # None /\ call[1].fn = "fmt" /\ call[1].arg.tag = "Success"
        /\ InRange(call[1].arg.heads_num_diff)) =>
        /\ ~ret[1].panic
        /\ ret[1].str # <<"0">>
        /\ ret[1].str # <<"-", "1">>
        /\ \A e \in Fmt([tag |-> "Error", heads_num_diff |-> 0]) : e.str # ret[1].str
        /\ \A d \in I64 :
              (d # call[1].arg.heads_num_diff /\ InRange(d)) =>
                  \A o \in Fmt([tag |-> "Success", heads_num_diff |-> d]) :
                      o.str # ret[1].str

\* Success{0} was written as "1", and Success{-1} and Success{1} are written
\* as other strings.
C27_Witness ==
    /\ call = Some([fn |-> "fmt", arg |-> [tag |-> "Success", heads_num_diff |-> 0]])
    /\ ret = Some([panic |-> FALSE, str |-> <<"1">>])
    /\ Fmt([tag |-> "Success", heads_num_diff |-> -1]) =
          {[panic |-> FALSE, str |-> <<"-", "2">>]}
    /\ Fmt([tag |-> "Success", heads_num_diff |-> 1]) =
          {[panic |-> FALSE, str |-> <<"2">>]}

\* The completion future of r was yielded and has resolved.
Resolved(r) ==
    /\ \E k \in 1..Len(emitted) : emitted[k] = [rev |-> r, item |-> "future"]
    /\ cshandle[r] \in {"ok", "failed"}

C29_PartialUsesSession ==
    ~is_import_from_beggining =>
        \A r \in Log :
            /\ cshandle[r] \in {"pending", "ok"} => Len(phandles[r]) = Len(cs_parents[r])
            /\ \A i \in 1..Len(phandles[r]) :
                  LET p == cs_parents[r][i]
                      h == phandles[r][i]
                  IN  /\ h.rev = p
                      /\ h.from \in {"map", "store"}
                      /\ (h.from = "map") <=> (p \in parent_changeset_handles)
                      /\ (h.from = "map") <=> (cshandle[p] # "none")
                      /\ (h.from = "store") <=> (ext[p] \in {"src", "errored"})

\* In an import with skip, a merge holds the session's handle of a parent
\* that is still in flight and a store lookup for the parent that was skipped.
C29_Witness ==
    /\ ~is_import_from_beggining
    /\ \E r \in Log :
          /\ Len(phandles[r]) = 2
          /\ phandles[r][1].from = "map"
          /\ cshandle[phandles[r][1].rev] = "pending"
          /\ phandles[r][2].from = "store"
          /\ ext[phandles[r][2].rev] = "src"

====
